---- MODULE Spec2Model ----
(***************************************************************************)
(* Model of the question/answer dataset pipeline of dataset_gen.py (long   *)
(* layout) and dataset_qa.py (wide layout).                                *)
(*                                                                         *)
(* Text is a sequence of one-character strings.  Python values are tagged  *)
(* records [t |-> tag, v |-> payload]:                                     *)
(*   "none" None        "bool" True/False      "num" a number (its lexeme) *)
(*   "str"  a string    "list" a list          "dict" a dict (a function   *)
(*                                              from key text to value)    *)
(***************************************************************************)
EXTENDS Integers, Sequences, FiniteSets, TLC

\* ------------------------------------------------------------------ values

PyNone == [t |-> "none", v |-> <<>>]
PyStr(s) == [t |-> "str", v |-> s]
PyList(xs) == [t |-> "list", v |-> xs]
PyDict(f) == [t |-> "dict", v |-> f]
PyBool(b) == [t |-> "bool", v |-> b]
PyNum(lexeme) == [t |-> "num", v |-> lexeme]

EmptyStr == PyStr(<<>>)

\* key text of the two record fields
KeyQuestion == <<"q", "u", "e", "s", "t", "i", "o", "n">>
KeyAnswer == <<"a", "n", "s", "w", "e", "r">>

\* {'question': q, 'answer': a}
QADict(q, a) ==
    PyDict([k \in {KeyQuestion, KeyAnswer} |-> IF k = KeyQuestion THEN q ELSE a])

\* characters json.decoder.WHITESPACE skips
JsonWS == {" ", "\t", "\n", "\r"}
\* characters str.strip() removes (those of the model's alphabet)
PyWS == {" ", "\t", "\n", "\r", "\f"}
Digits == {"0", "1", "2", "3", "4", "5", "6", "7", "8", "9"}

\* ------------------------------------------------------------- str methods

\* s[a:b] for 0 <= a, 0 <= b
Slice(s, a, b) ==
    LET hi == IF b > Len(s) THEN Len(s) ELSE b
    IN IF a >= hi THEN <<>> ELSE SubSeq(s, a + 1, hi)

\* s.find(c): 0-based index of the first c, -1 when absent
Find(s, c) ==
    IF \E i \in 1..Len(s) : s[i] = c
    THEN (CHOOSE i \in 1..Len(s) : s[i] = c /\ \A j \in 1..(i - 1) : s[j] # c) - 1
    ELSE -1

\* s.rfind(c): 0-based index of the last c, -1 when absent
RFind(s, c) ==
    IF \E i \in 1..Len(s) : s[i] = c
    THEN (CHOOSE i \in 1..Len(s) : s[i] = c /\ \A j \in (i + 1)..Len(s) : s[j] # c) - 1
    ELSE -1

\* s.strip()
Strip(s) ==
    LET keep == {i \in 1..Len(s) : s[i] \notin PyWS}
    IN IF keep = {} THEN <<>>
       ELSE LET lo == CHOOSE i \in keep : \A j \in keep : i <= j
                hi == CHOOSE i \in keep : \A j \in keep : j <= i
            IN SubSeq(s, lo, hi)

\* s.startswith(p)
StartsWith(s, p) == Len(s) >= Len(p) /\ SubSeq(s, 1, Len(p)) = p

\* s.split(c): the pieces between the occurrences of c (always at least one)
RECURSIVE Split(_, _)
Split(s, c) ==
    LET i == Find(s, c)
    IN IF i = -1 THEN <<s>>
       ELSE <<Slice(s, 0, i)>> \o Split(Slice(s, i + 1, Len(s)), c)

\* s.split(c, 1): at most one split
Split1(s, c) ==
    LET i == Find(s, c)
    IN IF i = -1 THEN <<s>>
       ELSE <<Slice(s, 0, i), Slice(s, i + 1, Len(s))>>

\* value of a digit character
DigitValue(c) ==
    CASE c = "0" -> 0 [] c = "1" -> 1 [] c = "2" -> 2 [] c = "3" -> 3 [] c = "4" -> 4
      [] c = "5" -> 5 [] c = "6" -> 6 [] c = "7" -> 7 [] c = "8" -> 8 [] c = "9" -> 9

\* the digits of 2^-1075 = 5^1075 * 10^-1075, the first one of weight 10^-324:
\* half the smallest positive float.  float() rounds to nearest, ties to
\* even, so a decimal rounds to 0.0 exactly when it is at most this.
HalfMinSubnormal ==
    <<"2", "4", "7", "0", "3", "2", "8", "2", "2", "9", "2", "0", "6", "2", "3", "2">>
    \o <<"7", "2", "0", "8", "8", "2", "8", "4", "3", "9", "6", "4", "3", "4", "1", "1">>
    \o <<"0", "6", "8", "6", "1", "8", "2", "5", "2", "9", "9", "0", "1", "3", "0", "7">>
    \o <<"1", "6", "2", "3", "8", "2", "2", "1", "2", "7", "9", "2", "8", "4", "1", "2">>
    \o <<"5", "0", "3", "3", "7", "7", "5", "3", "6", "3", "5", "1", "0", "4", "3", "7">>
    \o <<"5", "9", "3", "2", "6", "4", "9", "9", "1", "8", "1", "8", "0", "8", "1", "7">>
    \o <<"9", "9", "6", "1", "8", "9", "8", "9", "8", "2", "8", "2", "3", "4", "7", "7">>
    \o <<"2", "2", "8", "5", "8", "8", "6", "5", "4", "6", "3", "3", "2", "8", "3", "5">>
    \o <<"5", "1", "7", "7", "9", "6", "9", "8", "9", "8", "1", "9", "9", "3", "8", "7">>
    \o <<"3", "9", "8", "0", "0", "5", "3", "9", "0", "9", "3", "9", "0", "6", "3", "1">>
    \o <<"5", "0", "3", "5", "6", "5", "9", "5", "1", "5", "5", "7", "0", "2", "2", "6">>
    \o <<"3", "9", "2", "2", "9", "0", "8", "5", "8", "3", "9", "2", "4", "4", "9", "1">>
    \o <<"0", "5", "1", "8", "4", "4", "3", "5", "9", "3", "1", "8", "0", "2", "8", "4">>
    \o <<"9", "9", "3", "6", "5", "3", "6", "1", "5", "2", "5", "0", "0", "3", "1", "9">>
    \o <<"3", "7", "0", "4", "5", "7", "6", "7", "8", "2", "4", "9", "2", "1", "9", "3">>
    \o <<"6", "5", "6", "2", "3", "6", "6", "9", "8", "6", "3", "6", "5", "8", "4", "8">>
    \o <<"0", "7", "5", "7", "0", "0", "1", "5", "8", "5", "7", "6", "9", "2", "6", "9">>
    \o <<"9", "0", "3", "7", "0", "6", "3", "1", "1", "9", "2", "8", "2", "7", "9", "5">>
    \o <<"5", "8", "5", "5", "1", "3", "3", "2", "9", "2", "7", "8", "3", "4", "3", "3">>
    \o <<"8", "4", "0", "9", "3", "5", "1", "9", "7", "8", "0", "1", "5", "5", "3", "1">>
    \o <<"2", "4", "6", "5", "9", "7", "2", "6", "3", "5", "7", "9", "5", "7", "4", "6">>
    \o <<"2", "2", "7", "6", "6", "4", "6", "5", "2", "7", "2", "8", "2", "7", "2", "2">>
    \o <<"0", "0", "5", "6", "3", "7", "4", "0", "0", "6", "4", "8", "5", "4", "9", "9">>
    \o <<"9", "7", "7", "0", "9", "6", "5", "9", "9", "4", "7", "0", "4", "5", "4", "0">>
    \o <<"2", "0", "8", "2", "8", "1", "6", "6", "2", "2", "6", "2", "3", "7", "8", "5">>
    \o <<"7", "3", "9", "3", "4", "5", "0", "7", "3", "6", "3", "3", "9", "0", "0", "7">>
    \o <<"9", "6", "7", "7", "6", "1", "9", "3", "0", "5", "7", "7", "5", "0", "6", "7">>
    \o <<"4", "0", "1", "7", "6", "3", "2", "4", "6", "7", "3", "6", "0", "0", "9", "6">>
    \o <<"8", "9", "5", "1", "3", "4", "0", "5", "3", "5", "5", "3", "7", "4", "5", "8">>
    \o <<"5", "1", "6", "6", "6", "1", "1", "3", "4", "2", "2", "3", "7", "6", "6", "6">>
    \o <<"7", "8", "6", "0", "4", "1", "6", "2", "1", "5", "9", "6", "8", "0", "4", "6">>
    \o <<"1", "9", "1", "4", "4", "6", "7", "2", "9", "1", "8", "4", "0", "3", "0", "0">>
    \o <<"5", "3", "0", "0", "5", "7", "5", "3", "0", "8", "4", "9", "0", "4", "8", "7">>
    \o <<"6", "5", "3", "9", "1", "7", "1", "1", "3", "8", "6", "5", "9", "1", "6", "4">>
    \o <<"6", "2", "3", "9", "5", "2", "4", "9", "1", "2", "6", "2", "3", "6", "5", "3">>
    \o <<"8", "8", "1", "8", "7", "9", "6", "3", "6", "2", "3", "9", "3", "7", "3", "2">>
    \o <<"8", "0", "4", "2", "3", "8", "9", "1", "0", "1", "8", "6", "7", "2", "3", "4">>
    \o <<"8", "4", "9", "7", "6", "6", "8", "2", "3", "5", "0", "8", "9", "8", "6", "3">>
    \o <<"3", "8", "8", "5", "8", "7", "9", "2", "5", "6", "2", "8", "3", "0", "2", "7">>
    \o <<"5", "5", "9", "9", "5", "6", "5", "7", "5", "2", "4", "4", "5", "5", "5", "0">>
    \o <<"7", "2", "5", "5", "1", "8", "9", "3", "1", "3", "6", "9", "0", "8", "3", "6">>
    \o <<"2", "5", "4", "7", "7", "9", "1", "8", "6", "9", "4", "8", "6", "6", "7", "9">>
    \o <<"9", "4", "9", "6", "8", "3", "2", "4", "0", "4", "9", "7", "0", "5", "8", "2">>
    \o <<"1", "0", "2", "8", "5", "1", "3", "1", "8", "5", "4", "5", "1", "3", "9", "6">>
    \o <<"2", "1", "3", "8", "3", "7", "7", "2", "2", "8", "2", "6", "1", "4", "5", "4">>
    \o <<"3", "7", "6", "9", "3", "4", "1", "2", "5", "3", "2", "0", "9", "8", "5", "9">>
    \o <<"1", "3", "2", "7", "6", "6", "7", "2", "3", "6", "3", "2", "8", "1", "2", "5">>

\* the exponent of 10 of the first digit of HalfMinSubnormal
HalfMinSubnormalExp == -324

\* an exponent of more digits than this exceeds any length of text
MaxExpDigits == 9

\* s without its leading zeros
DropZeros(s) ==
    IF \A i \in 1..Len(s) : s[i] = "0" THEN <<>>
    ELSE SubSeq(s, CHOOSE i \in 1..Len(s) : s[i] # "0" /\ \A j \in 1..(i - 1) : s[j] = "0",
                Len(s))

\* the number a sequence of at most MaxExpDigits digits writes
RECURSIVE DigitsValue(_)
DigitsValue(ds) ==
    IF ds = <<>> THEN 0 ELSE 10 * DigitsValue(SubSeq(ds, 1, Len(ds) - 1)) + DigitValue(ds[Len(ds)])

\* digit sequences as decimal fractions d1.d2d3...: a <= b
FractionLeq(a, b) ==
    LET n == IF Len(a) > Len(b) THEN Len(a) ELSE Len(b)
        da(k) == IF k <= Len(a) THEN DigitValue(a[k]) ELSE 0
        db(k) == IF k <= Len(b) THEN DigitValue(b[k]) ELSE 0
    IN IF \A k \in 1..n : da(k) = db(k) THEN TRUE
       ELSE LET k == CHOOSE k \in 1..n : da(k) # db(k) /\ \A j \in 1..(k - 1) : da(j) = db(j)
            IN da(k) < db(k)

\* the float a lexeme with a fraction or an exponent converts to is 0.0:
\* digits are the integer and fraction digits, nInt the number of integer
\* digits, expNeg and expDigits the exponent (leading zeros dropped)
FloatIsZero(digits, nInt, expNeg, expDigits) ==
    IF DropZeros(digits) = <<>> THEN TRUE
    ELSE IF Len(expDigits) > MaxExpDigits THEN expNeg
    ELSE LET lead == Len(digits) - Len(DropZeros(digits)) + 1
             exp == IF expNeg THEN 0 - DigitsValue(expDigits) ELSE DigitsValue(expDigits)
             E == nInt - lead + exp
         IN \/ E < HalfMinSubnormalExp
            \/ E = HalfMinSubnormalExp /\ FractionLeq(DropZeros(digits), HalfMinSubnormal)

\* the number a NUMBER_RE lexeme converts to is zero: int(lexeme) when it has
\* neither fraction nor exponent, float(lexeme) otherwise
NumberIsZero(lexeme) ==
    LET n == Len(lexeme)
        first == IF lexeme[1] = "-" THEN 2 ELSE 1
        ePos == IF \E i \in 1..n : lexeme[i] \in {"e", "E"}
                THEN CHOOSE i \in 1..n : lexeme[i] \in {"e", "E"} ELSE n + 1
        dot == IF \E i \in 1..n : lexeme[i] = "."
               THEN CHOOSE i \in 1..n : lexeme[i] = "." ELSE ePos
        eSign == IF ePos < n /\ lexeme[ePos + 1] \in {"-", "+"} THEN 1 ELSE 0
    IN FloatIsZero(SubSeq(lexeme, first, dot - 1) \o SubSeq(lexeme, dot + 1, ePos - 1),
                   dot - first,
                   ePos < n /\ lexeme[ePos + 1] = "-",
                   DropZeros(SubSeq(lexeme, ePos + 1 + eSign, n)))

\* bool(x); NaN, Infinity and -Infinity are true
Truthy(x) ==
    CASE x.t = "none" -> FALSE
      [] x.t = "bool" -> x.v
      [] x.t = "num" -> \/ \E i \in 1..Len(x.v) : x.v[i] \in {"N", "I"}
                        \/ ~NumberIsZero(x.v)
      [] x.t = "str" -> x.v # <<>>
      [] x.t = "list" -> x.v # <<>>
      [] x.t = "dict" -> DOMAIN x.v # {}

\* ------------------------------------------------------------- json.loads
\* The decoder follows json.decoder / json.scanner on text over Alphabet:
\* no backslash escapes and no characters outside ASCII.

Alphabet ==
    {"[", "]", "{", "}", ",", ":", "\"", " ", "\n", "\t", "\r", ".", "-", "+", "?"}
    \cup Digits
    \cup {"Q", "A", "N", "I", "E", "a", "b", "c", "d", "e", "f", "i", "l", "n",
          "o", "q", "r", "s", "t", "u", "w", "x", "y"}

\* characters a JSON string may not hold unescaped (strict mode)
ControlChars == {"\t", "\n", "\r", "\f"}

\* sys.int_info.default_max_str_digits: int() of more digits raises ValueError
MaxIntDigits == 4300

\* the deepest nesting of arrays and objects the scanner decodes when the
\* script runs: sys.getrecursionlimit() = 1000 less the frames above the
\* scanner; one level deeper raises RecursionError
MaxNesting == 993

\* outcomes of scanning: a value and the index after it (Ok), JSONDecodeError
\* (Fail), or an exception that is no JSONDecodeError (Raised)
Fail == [ok |-> FALSE, raised |-> FALSE, val |-> PyNone, end |-> 0]
Raised == [ok |-> FALSE, raised |-> TRUE, val |-> PyNone, end |-> 0]
Ok(val, end) == [ok |-> TRUE, raised |-> FALSE, val |-> val, end |-> end]

\* index of the first character at or after i that is not JSON whitespace
SkipWS(s, i) ==
    IF i > Len(s) THEN i
    ELSE CHOOSE j \in i..(Len(s) + 1) :
             /\ j = Len(s) + 1 \/ s[j] \notin JsonWS
             /\ \A k \in i..(j - 1) : s[k] \in JsonWS

\* index of the first character at or after i that is not a digit
DigitsEnd(s, i) ==
    IF i > Len(s) THEN i
    ELSE CHOOSE j \in i..(Len(s) + 1) :
             /\ j = Len(s) + 1 \/ s[j] \notin Digits
             /\ \A k \in i..(j - 1) : s[k] \in Digits

IsDigitAt(s, i) == i <= Len(s) /\ s[i] \in Digits

\* NUMBER_RE = (-?(?:0|[1-9]\d*))(\.\d+)?([eE][-+]?\d+)? matched at i:
\* the index after the match, 0 when there is none
NumberEnd(s, i) ==
    LET k == IF i <= Len(s) /\ s[i] = "-" THEN i + 1 ELSE i
        intEnd == IF ~IsDigitAt(s, k) THEN 0
                  ELSE IF s[k] = "0" THEN k + 1 ELSE DigitsEnd(s, k)
        fracEnd == IF intEnd <= Len(s) /\ s[intEnd] = "." /\ IsDigitAt(s, intEnd + 1)
                   THEN DigitsEnd(s, intEnd + 1) ELSE intEnd
        e1 == fracEnd + 1
        e2 == IF e1 <= Len(s) /\ s[e1] \in {"-", "+"} THEN e1 + 1 ELSE e1
        expEnd == IF fracEnd <= Len(s) /\ s[fracEnd] \in {"e", "E"} /\ IsDigitAt(s, e2)
                  THEN DigitsEnd(s, e2) ELSE fracEnd
    IN IF intEnd = 0 THEN 0 ELSE expEnd

\* py_scanstring from i, the index after the opening quote
ScanString(s, i) ==
    LET j == Find(Slice(s, i - 1, Len(s)), "\"")
        body == Slice(s, i - 1, i - 1 + j)
    IN IF j = -1 THEN Fail
       ELSE IF \E k \in 1..Len(body) : body[k] \in ControlChars THEN Fail
       ELSE Ok(PyStr(body), i + j + 1)

Literal(s, i, word) == Slice(s, i - 1, i - 1 + Len(word)) = word
MinusInfinity == <<"-", "I", "n", "f", "i", "n", "i", "t", "y">>

\* the number NUMBER_RE matched from i to end, or no value when it did not;
\* an integer lexeme of more than MaxIntDigits digits makes int() raise
NumberAt(s, i, end) ==
    IF end = 0 THEN Fail
    ELSE IF /\ \A k \in i..(end - 1) : s[k] \notin {".", "e", "E"}
            /\ end - i - (IF s[i] = "-" THEN 1 ELSE 0) > MaxIntDigits
    THEN Raised
    ELSE Ok(PyNum(SubSeq(s, i, end - 1)), end)

\* depth is the number of arrays and objects open around index i
RECURSIVE ScanOnce(_, _, _), ArrayItems(_, _, _, _), ObjectItems(_, _, _, _)

\* JSONArray after the opening bracket and its whitespace
ParseArray(s, i, depth) ==
    LET j == SkipWS(s, i)
    IN IF j <= Len(s) /\ s[j] = "]" THEN Ok(PyList(<<>>), j + 1)
       ELSE ArrayItems(s, j, <<>>, depth)

ArrayItems(s, i, acc, depth) ==
    LET r == ScanOnce(s, i, depth)
        j == SkipWS(s, r.end)
    IN IF ~r.ok THEN r
       ELSE IF j > Len(s) THEN Fail
       ELSE IF s[j] = "]" THEN Ok(PyList(Append(acc, r.val)), j + 1)
       ELSE IF s[j] # "," THEN Fail
       ELSE ArrayItems(s, SkipWS(s, j + 1), Append(acc, r.val), depth)

\* JSONObject after the opening brace
ParseObject(s, i, depth) ==
    LET j == SkipWS(s, i)
    IN IF j > Len(s) THEN Fail
       ELSE IF s[j] = "}" THEN Ok(PyDict(<<>>), j + 1)
       ELSE IF s[j] # "\"" THEN Fail
       ELSE ObjectItems(s, j + 1, <<>>, depth)

\* one key: value pair from i, the index after the key's opening quote
ObjectItems(s, i, acc, depth) ==
    LET key == ScanString(s, i)
        c == SkipWS(s, key.end)
        r == ScanOnce(s, SkipWS(s, c + 1), depth)
        j == SkipWS(s, r.end)
        dict == [k \in DOMAIN acc \cup {key.val.v} |->
                     IF k = key.val.v THEN r.val ELSE acc[k]]
        n == SkipWS(s, j + 1)
    IN IF ~key.ok THEN Fail
       ELSE IF c > Len(s) \/ s[c] # ":" THEN Fail
       ELSE IF ~r.ok THEN r
       ELSE IF j > Len(s) THEN Fail
       ELSE IF s[j] = "}" THEN Ok(PyDict(dict), j + 1)
       ELSE IF s[j] # "," THEN Fail
       ELSE IF n > Len(s) \/ s[n] # "\"" THEN Fail
       ELSE ObjectItems(s, n + 1, dict, depth)

\* scanner.scan_once at index i
ScanOnce(s, i, depth) ==
    IF i > Len(s) THEN Fail
    ELSE CASE s[i] = "\"" -> ScanString(s, i + 1)
           [] s[i] \in {"{", "["} /\ depth >= MaxNesting -> Raised
           [] s[i] = "{" /\ depth < MaxNesting -> ParseObject(s, i + 1, depth + 1)
           [] s[i] = "[" /\ depth < MaxNesting -> ParseArray(s, i + 1, depth + 1)
           [] s[i] = "n" /\ Literal(s, i, <<"n", "u", "l", "l">>) -> Ok(PyNone, i + 4)
           [] s[i] = "t" /\ Literal(s, i, <<"t", "r", "u", "e">>) -> Ok(PyBool(TRUE), i + 4)
           [] s[i] = "f" /\ Literal(s, i, <<"f", "a", "l", "s", "e">>) ->
                  Ok(PyBool(FALSE), i + 5)
           [] s[i] \in Digits \cup {"-"} /\ ~Literal(s, i, MinusInfinity) ->
                  NumberAt(s, i, NumberEnd(s, i))
           [] s[i] = "N" /\ Literal(s, i, <<"N", "a", "N">>) ->
                  Ok(PyNum(<<"N", "a", "N">>), i + 3)
           [] s[i] = "I" /\ Literal(s, i, <<"I", "n", "f", "i", "n", "i", "t", "y">>) ->
                  Ok(PyNum(SubSeq(s, i, i + 7)), i + 8)
           [] s[i] = "-" /\ Literal(s, i, MinusInfinity) ->
                  Ok(PyNum(SubSeq(s, i, i + 8)), i + 9)
           [] OTHER -> Fail

\* JSONDecoder.decode after raw_decode: only whitespace may follow the value
WholeText(s, r) ==
    IF ~r.ok THEN r
    ELSE IF SkipWS(s, r.end) = Len(s) + 1 THEN r ELSE Fail

\* json.loads(s): the value (ok), JSONDecodeError (neither ok nor raised), or
\* another exception (raised): ValueError of int(), RecursionError
JsonLoads(s) == WholeText(s, ScanOnce(s, SkipWS(s, 1), 0))

\* ------------------------------------------- generate_questions_and_answers

\* default of the num_questions parameter
NumQuestions == 5

KeyResponse == <<"r", "e", "s", "p", "o", "n", "s", "e">>
MarkQ == <<"Q">>
MarkQuestion == <<"Q", "u", "e", "s", "t", "i", "o", "n">>
MarkA == <<"A">>
MarkAnswer == <<"A", "n", "s", "w", "e", "r">>

\* d.get(key, default) on a dict
Get(d, key, default) == IF key \in DOMAIN d.v THEN d.v[key] ELSE default

\* the fallback scanner's locals before the first line
ScanInit == [current_question |-> PyNone, current_answer |-> <<>>,
             questions_answers |-> <<>>]

\* "Save previous Q&A if exists" / "Add the last Q&A"
SaveOpen(st) ==
    IF st.current_question # PyNone
    THEN Append(st.questions_answers,
                QADict(st.current_question, PyStr(Strip(st.current_answer))))
    ELSE st.questions_answers

\* the branch of a question-marker line
QuestionLine(st, line) ==
    LET parts == Split1(line, ":")
        saved == [st EXCEPT !.questions_answers = SaveOpen(st)]
    IN IF Len(parts) > 1
       THEN [saved EXCEPT !.current_question = PyStr(Strip(parts[2])),
                          !.current_answer = <<>>]
       ELSE saved

\* the branch of an answer-marker line
AnswerLine(st, line) ==
    LET parts == Split1(line, ":")
    IN IF Len(parts) > 1 THEN [st EXCEPT !.current_answer = Strip(parts[2])] ELSE st

\* the branch of any other line
OtherLine(st, line) ==
    IF st.current_question # PyNone
    THEN [st EXCEPT !.current_answer = @ \o <<" ">> \o Strip(line)]
    ELSE st

\* one iteration of "for line in lines"
ScanLine(st, line) ==
    IF StartsWith(Strip(line), MarkQ) \/ StartsWith(Strip(line), MarkQuestion)
    THEN QuestionLine(st, line)
    ELSE IF StartsWith(Strip(line), MarkA) \/ StartsWith(Strip(line), MarkAnswer)
    THEN AnswerLine(st, line)
    ELSE OtherLine(st, line)

RECURSIVE ScanLines(_, _)
ScanLines(st, lines) ==
    IF lines = <<>> THEN st ELSE ScanLines(ScanLine(st, Head(lines)), Tail(lines))

\* the return of the fallback: the scanned records cut to num_questions
Truncate(questions_answers, num_questions) == Slice(questions_answers, 0, num_questions)

\* the except json.JSONDecodeError branch
FallbackParse(response_text, num_questions) ==
    PyList(Truncate(SaveOpen(ScanLines(ScanInit, Split(response_text, "\n"))),
                    num_questions))

\* the try block: the slice from the first "[" to the last "]" when a "["
\* exists (end_idx is never -1), the whole text otherwise
ExtractJson(response_text) ==
    LET start_idx == Find(response_text, "[")
        end_idx == RFind(response_text, "]") + 1
    IN JsonLoads(IF start_idx # -1 /\ end_idx # -1
                 THEN Slice(response_text, start_idx, end_idx)
                 ELSE response_text)

\* the status 200 branch from response_text on: the decoded value, None
\* when json.loads raised what "except json.JSONDecodeError" does not catch
\* (the outer "except Exception" does), the fallback's records otherwise
OrFallback(decoded, response_text, num_questions) ==
    IF decoded.ok THEN decoded.val
    ELSE IF decoded.raised THEN PyNone
    ELSE FallbackParse(response_text, num_questions)

ParseResponse(response_text, num_questions) ==
    OrFallback(ExtractJson(response_text), response_text, num_questions)

\* An HTTP exchange as the function sees it:
\*   raised      requests.post raised (connection refused, timeout)
\*   status_code response.status_code
\*   json_ok     response.json() decodes the body
\*   result      the decoded body
TransportError == [raised |-> TRUE, status_code |-> 0, json_ok |-> FALSE,
                   result |-> PyNone]
HttpError == [raised |-> FALSE, status_code |-> 500, json_ok |-> FALSE,
              result |-> PyNone]
BadBody == [raised |-> FALSE, status_code |-> 200, json_ok |-> FALSE,
            result |-> PyNone]
Http200(text) == [raised |-> FALSE, status_code |-> 200, json_ok |-> TRUE,
                  result |-> PyDict([k \in {KeyResponse} |-> PyStr(text)])]

\* generate_questions_and_answers given the exchange: the value returned.
\* Every exception but JSONDecodeError of the inner try reaches the outer
\* except and returns None.
GenerateQuestionsAndAnswers(response, num_questions) ==
    IF response.raised THEN PyNone
    ELSE IF response.status_code # 200 THEN PyNone
    ELSE IF ~response.json_ok THEN PyNone
    ELSE IF response.result.t # "dict" THEN PyNone
    ELSE IF Get(response.result, KeyResponse, EmptyStr).t # "str" THEN PyNone
    ELSE ParseResponse(Get(response.result, KeyResponse, EmptyStr).v, num_questions)

\* ------------------------------------------------- write_results_to_excel

\* number of "Question i" / "Answer i" columns of the wide layout
WideSlots == 5

\* one output row of dataset_gen.py
LongRow(category, topic, qa) ==
    [Category |-> category, Topic |-> topic,
     Question |-> Get(qa, KeyQuestion, EmptyStr),
     Answer |-> Get(qa, KeyAnswer, EmptyStr)]

\* one row of df_with_qa after the 'Question i' / 'Answer i' columns are added
WideRow(row) ==
    [Category |-> row.Category, Topic |-> row.Topic,
     Question |-> [i \in 1..WideSlots |-> EmptyStr],
     Answer |-> [i \in 1..WideSlots |-> EmptyStr]]

\* some enumeration of a set of key texts
RECURSIVE KeySeq(_)
KeySeq(keys) ==
    IF keys = {} THEN <<>>
    ELSE LET k == CHOOSE x \in keys : TRUE IN <<PyStr(k)>> \o KeySeq(keys \ {k})

\* what "for qa in x" iterates over; the body raises at the first element
\* that is no dict, so of a dict's keys and a str's characters only the
\* first is ever visited
Items(x) ==
    CASE x.t = "list" -> x.v
      [] x.t = "str" -> [i \in 1..Len(x.v) |-> PyStr(<<x.v[i]>>)]
      [] x.t = "dict" -> KeySeq(DOMAIN x.v)
      [] OTHER -> <<>>

\* "for qa in qa_results" raises TypeError
NotIterable(x) == x.t \notin {"list", "str", "dict"}
\* "qa_results[:5]" raises TypeError
NotSliceable(x) == x.t \notin {"list", "str"}

\* AppendRows with result_data.insert(0, ...) in place of append
RECURSIVE AppendRowsAtFront(_, _, _, _)
AppendRowsAtFront(acc, category, topic, items) ==
    IF items = <<>> THEN acc
    ELSE IF Head(items).t # "dict" THEN [acc EXCEPT !.raised = TRUE]
    ELSE AppendRowsAtFront([acc EXCEPT !.result_data =
                                           <<LongRow(category, topic, Head(items))>> \o @,
                                       !.total_qa_pairs = @ + 1],
                           category, topic, Tail(items))

\* dataset_gen.py, the loop over qa_results: acc is
\* [result_data, total_qa_pairs, raised]; qa.get raises AttributeError on
\* anything but a dict
RECURSIVE AppendRows(_, _, _, _)
AppendRows(acc, category, topic, items) ==
    IF items = <<>> THEN acc
    ELSE IF Head(items).t # "dict" THEN [acc EXCEPT !.raised = TRUE]
    ELSE AppendRows([acc EXCEPT !.result_data =
                                    Append(@, LongRow(category, topic, Head(items))),
                                !.total_qa_pairs = @ + 1],
                    category, topic, Tail(items))

\* LongBody with "total_qa_pairs += 1" outside the inner loop
LongBodyCountsPairs(acc, category, topic, qa_results) ==
    IF ~Truthy(qa_results) THEN acc
    ELSE IF NotIterable(qa_results) THEN [acc EXCEPT !.raised = TRUE]
    ELSE [AppendRows(acc, category, topic, Items(qa_results))
             EXCEPT !.total_qa_pairs = acc.total_qa_pairs + 1]

\* dataset_gen.py, "if qa_results:" and its body
LongBody(acc, category, topic, qa_results) ==
    IF ~Truthy(qa_results) THEN acc
    ELSE IF NotIterable(qa_results) THEN [acc EXCEPT !.raised = TRUE]
    ELSE AppendRows(acc, category, topic, Items(qa_results))

\* dataset_qa.py, the loop over enumerate(qa_results[:5]): acc is
\* [row, raised], i the 0-based enumerate index
RECURSIVE FillSlots(_, _, _)
FillSlots(acc, i, items) ==
    IF items = <<>> THEN acc
    ELSE IF Head(items).t # "dict" THEN [acc EXCEPT !.raised = TRUE]
    ELSE FillSlots([acc EXCEPT !.row.Question[i + 1] =
                                   Get(Head(items), KeyQuestion, EmptyStr),
                               !.row.Answer[i + 1] =
                                   Get(Head(items), KeyAnswer, EmptyStr)],
                   i + 1, Tail(items))

\* dataset_qa.py, "if qa_results:" and its body
WideBody(acc, qa_results) ==
    IF ~Truthy(qa_results) THEN acc
    ELSE IF NotSliceable(qa_results) THEN [acc EXCEPT !.raised = TRUE]
    ELSE FillSlots(acc, 0, Slice(Items(qa_results), 0, WideSlots))

\* read_excel_data without the check of the required columns
ReadOkIgnoresColumns(file) == file.readable

\* read_excel_data: TRUE when it returns the frame, FALSE when it returns None
ReadOk(file) ==
    /\ file.readable
    /\ ~("Category" \notin file.columns \/ "Topic" \notin file.columns)

\* ----------------------------------------------------------------- inputs

\* bounds of the explored inputs
MaxSeeds == 3
MaxLines == 4

\* a JSON string literal of text without quotes or control characters
Quote(s) == <<"\"">> \o s \o <<"\"">>

\* {"question": "q", "answer": "a"} as a model reply spells it
EncodeRecord(r) ==
    <<"{">> \o Quote(KeyQuestion) \o <<":", " ">> \o Quote(r.question)
    \o <<",", " ">> \o Quote(KeyAnswer) \o <<":", " ">> \o Quote(r.answer) \o <<"}">>

RECURSIVE JoinWith(_, _)
JoinWith(parts, sep) ==
    IF parts = <<>> THEN <<>>
    ELSE IF Len(parts) = 1 THEN parts[1]
    ELSE parts[1] \o sep \o JoinWith(Tail(parts), sep)

\* a well-formed JSON array encoding the record sequence R
EncodeArray(R) ==
    <<"[">> \o JoinWith([i \in 1..Len(R) |-> EncodeRecord(R[i])], <<",", " ">>) \o <<"]">>

\* the value a record sequence decodes to
RecordValues(R) ==
    [i \in 1..Len(R) |-> QADict(PyStr(R[i].question), PyStr(R[i].answer))]

RecAB == [question |-> <<"a">>, answer |-> <<"b">>]
RecCD == [question |-> <<"c", "?">>, answer |-> <<"d", " ", "e">>]

\* record sequences the structured replies encode: none, one, two, and one
\* more than num_questions
RecordSeqs ==
    {<<>>, <<RecAB>>, <<RecCD, RecAB>>, <<RecAB, RecCD, RecAB, RecCD, RecAB, RecCD>>}

\* "Some notes [...] end": an array wrapped in commentary
Wrapped(R) == <<"x", " ">> \o EncodeArray(R) \o <<" ", "y">>

\* replies that decode to something other than an array of records
TextNumber == <<"5">>
TextString == Quote(<<"a", "b">>)
TextObject == EncodeRecord(RecAB)
TextArrayOfStrings == <<"[">> \o Quote(<<"a">>) \o <<"]">>
TextEmptyObject == <<"{", "}">>
\* records with a missing key and with an empty string
TextMissing ==
    <<"[", "{">> \o Quote(KeyQuestion) \o <<":", " ">> \o Quote(<<"a">>) \o <<"}", ",", " ", "{">>
    \o Quote(KeyQuestion) \o <<":", " ">> \o Quote(<<>>) \o <<",", " ">>
    \o Quote(KeyAnswer) \o <<":", " ">> \o Quote(<<"b">>) \o <<"}", "]">>

\* lines of replies the structured decode rejects
LineQ == <<"Q", ":", " ", "x">>
LineQuestion == <<"Q", "u", "e", "s", "t", "i", "o", "n", ":", " ", "y">>
LineA == <<"A", ":", " ", "a">>
LineAnswer == <<"A", "n", "s", "w", "e", "r", ":", " ", "b">>
LineMore == <<"c", " ", "d">>
LineBlank == <<>>
LineQNoColon == <<"Q", "u", "o", "t", "e">>
LineQEmpty == <<"Q", ":">>

LineKinds ==
    {LineQ, LineQuestion, LineA, LineAnswer, LineMore, LineBlank, LineQNoColon, LineQEmpty}

RECURSIVE SeqsUpTo(_, _)
SeqsUpTo(S, n) ==
    IF n = 0 THEN {<<>>}
    ELSE LET shorter == SeqsUpTo(S, n - 1)
         IN shorter \cup {Append(q, x) : q \in {r \in shorter : Len(r) = n - 1}, x \in S}

\* replies of 1..MaxLines lines
LineTexts == {JoinWith(ls, <<"\n">>) : ls \in SeqsUpTo(LineKinds, MaxLines) \ {<<>>}}

\* seven question/answer line pairs: more than num_questions
LongLineText ==
    JoinWith([i \in 1..14 |-> IF i % 2 = 1 THEN LineQ ELSE LineA], <<"\n">>)

\* a float lexeme that underflows to 0.0
TextUnderflow == <<"1", "e", "-", "4", "0", "0">>
\* an integer of one digit more than int() converts
TextLongInt == [i \in 1..(MaxIntDigits + 1) |-> "1"]

\* replies the parser is run on alone
ParserTexts ==
    LineTexts \cup {LongLineText}
    \cup {EncodeArray(R) : R \in RecordSeqs} \cup {Wrapped(R) : R \in RecordSeqs}
    \cup {TextNumber, TextString, TextObject, TextArrayOfStrings, TextEmptyObject,
          TextMissing, TextUnderflow, TextLongInt}

\* replies a batch draws from
BatchTexts ==
    {EncodeArray(R) : R \in RecordSeqs} \cup {Wrapped(<<RecCD, RecAB>>)}
    \cup {TextNumber, TextString, TextObject, TextArrayOfStrings, TextEmptyObject,
          TextMissing, TextUnderflow}
    \cup {JoinWith(<<LineQ, LineA, LineMore>>, <<"\n">>),
          JoinWith(<<LineQEmpty, LineA>>, <<"\n">>),
          LineMore}

\* what one generation call can meet
Responses == {TransportError, HttpError, BadBody} \cup {Http200(t) : t \in BatchTexts}

SeedHistory == [Category |-> "History", Topic |-> "Silk Road"]
SeedEconomy == [Category |-> "Economy", Topic |-> "Trade"]

\* seed rows: the two seeds alternating, from either one, up to MaxSeeds rows
SeedBatches ==
    {[i \in 1..n |-> IF i % 2 = first THEN SeedHistory ELSE SeedEconomy] :
        n \in 0..MaxSeeds, first \in {0, 1}}

\* the seed spreadsheet: unreadable, lacking a required column (the names are
\* case-sensitive), or well-formed
InputFiles ==
    {[readable |-> FALSE, columns |-> {}, rows |-> <<>>]}
    \cup {[readable |-> TRUE, columns |-> cols, rows |-> <<SeedHistory>>] :
            cols \in {{"Category"}, {"Topic"}, {"category", "topic"}}}
    \cup {[readable |-> TRUE, columns |-> {"Category", "Topic"}, rows |-> rows] :
            rows \in SeedBatches}

\* ------------------------------------------------------------------ state

VARIABLES
    layout,          \* "long": dataset_gen.py, "wide": dataset_qa.py
    input_file,      \* the seed spreadsheet
    pc,              \* position in write_results_to_excel
    df,              \* the frame read_excel_data returned
    idx,             \* 1-based position of "for idx, row in df.iterrows()"
    result_data,     \* dataset_gen.py: the rows collected
    total_qa_pairs,  \* dataset_gen.py: the counter
    df_with_qa,      \* dataset_qa.py: the widened copy of df
    output_file,     \* what to_excel wrote
    trace,           \* generation calls and pacing delays, in order
    qa_returned,     \* generate_questions_and_answers' return value per call
    response_text,   \* parser run: the reply text
    parse_pc,        \* parser run: position in the status 200 branch
    lines,           \* parser run: lines still to scan
    scan,            \* parser run: current_question, current_answer, questions_answers
    parsed           \* parser run: the value returned

batchVars == <<layout, input_file, pc, df, idx, result_data, total_qa_pairs,
               df_with_qa, output_file, trace, qa_returned>>
parserVars == <<response_text, parse_pc, lines, scan, parsed>>
vars == <<batchVars, parserVars>>

\* the response field of a trace entry that is no generation call
NoResponse == [raised |-> FALSE, status_code |-> 0, json_ok |-> FALSE, result |-> PyNone]

NotWritten == [written |-> FALSE, rows |-> <<>>]

BatchIdle ==
    /\ layout = "long"
    /\ input_file = [readable |-> FALSE, columns |-> {}, rows |-> <<>>]
    /\ pc = "idle"
    /\ df = <<>>
    /\ idx = 1
    /\ result_data = <<>>
    /\ total_qa_pairs = 0
    /\ df_with_qa = <<>>
    /\ output_file = NotWritten
    /\ trace = <<>>
    /\ qa_returned = <<>>

ParserIdle ==
    /\ response_text = <<>>
    /\ parse_pc = "idle"
    /\ lines = <<>>
    /\ scan = ScanInit
    /\ parsed = PyNone

\* a run of one of the two scripts on a seed spreadsheet
Init ==
    /\ layout \in {"long", "wide"}
    /\ input_file \in InputFiles
    /\ pc = "read"
    /\ df = <<>>
    /\ idx = 1
    /\ result_data = <<>>
    /\ total_qa_pairs = 0
    /\ df_with_qa = <<>>
    /\ output_file = NotWritten
    /\ trace = <<>>
    /\ qa_returned = <<>>
    /\ ParserIdle

\* df = read_excel_data(input_file); "if df is None: return"
ReadFails ==
    /\ pc = "read"
    /\ ~ReadOk(input_file)
    /\ pc' = "returned"
    /\ UNCHANGED <<layout, input_file, df, idx, result_data, total_qa_pairs,
                   df_with_qa, output_file, trace, qa_returned>>
    /\ UNCHANGED parserVars

\* df = read_excel_data(input_file) and the set-up before the loop
ReadExcelData ==
    /\ pc = "read"
    /\ ReadOk(input_file)
    /\ df' = input_file.rows
    /\ df_with_qa' = IF layout = "wide"
                     THEN [i \in 1..Len(input_file.rows) |-> WideRow(input_file.rows[i])]
                     ELSE <<>>
    /\ result_data' = <<>>
    /\ total_qa_pairs' = 0
    /\ idx' = 1
    /\ pc' = IF input_file.rows = <<>> THEN "save" ELSE "generate"
    /\ UNCHANGED <<layout, input_file, output_file, trace, qa_returned>>
    /\ UNCHANGED parserVars

\* the "if qa_results:" body of the running script applied to the state
Accumulate(long, wide) ==
    IF layout = "long"
    THEN /\ result_data' = long.result_data
         /\ total_qa_pairs' = long.total_qa_pairs
         /\ df_with_qa' = df_with_qa
         /\ pc' = IF long.raised THEN "raised" ELSE "sleep"
    ELSE /\ df_with_qa' = [df_with_qa EXCEPT ![idx] = wide.row]
         /\ result_data' = result_data
         /\ total_qa_pairs' = total_qa_pairs
         /\ pc' = IF wide.raised THEN "raised" ELSE "sleep"

\* the loop body from the return of generate_questions_and_answers on
Received(response, qa_results) ==
    /\ trace' = Append(trace, [op |-> "post", row |-> idx, response |-> response])
    /\ qa_returned' = Append(qa_returned, qa_results)
    /\ Accumulate(LongBody([result_data |-> result_data,
                            total_qa_pairs |-> total_qa_pairs, raised |-> FALSE],
                           df[idx].Category, df[idx].Topic, qa_results),
                  WideBody([row |-> IF layout = "wide" THEN df_with_qa[idx]
                                    ELSE WideRow(df[idx]),
                            raised |-> FALSE], qa_results))

\* one loop iteration up to the pacing delay: the generation call and the
\* "if qa_results:" body; an exception of the body leaves the function
ProcessPair ==
    /\ pc = "generate"
    /\ \E response \in Responses :
           Received(response, GenerateQuestionsAndAnswers(response, NumQuestions))
    /\ UNCHANGED <<layout, input_file, df, idx, output_file>>
    /\ UNCHANGED parserVars

\* time.sleep(1), then the next row or the end of the loop
PacingDelay ==
    /\ pc = "sleep"
    /\ trace' = Append(trace, [op |-> "sleep", row |-> idx, response |-> NoResponse])
    /\ idx' = idx + 1
    /\ pc' = IF idx = Len(df) THEN "save" ELSE "generate"
    /\ UNCHANGED <<layout, input_file, df, result_data, total_qa_pairs,
                   df_with_qa, output_file, qa_returned>>
    /\ UNCHANGED parserVars

\* to_excel(output_file) after the loop
SaveResults ==
    /\ pc = "save"
    /\ output_file' = [written |-> TRUE,
                       rows |-> IF layout = "long" THEN result_data ELSE df_with_qa]
    /\ pc' = "done"
    /\ UNCHANGED <<layout, input_file, df, idx, result_data, total_qa_pairs,
                   df_with_qa, trace, qa_returned>>
    /\ UNCHANGED parserVars

Next == ReadFails \/ ReadExcelData \/ ProcessPair \/ PacingDelay \/ SaveResults

Spec == Init /\ [][Next]_vars

\* --------------------------------------------- the status 200 branch alone

\* one reply text handed to the status 200 branch
ParserInit ==
    /\ BatchIdle
    /\ response_text \in ParserTexts
    /\ parse_pc = "try"
    /\ lines = <<>>
    /\ scan = ScanInit
    /\ parsed = PyNone

\* the try block decodes: return questions_answers
ReturnDecoded ==
    /\ parse_pc = "try"
    /\ ExtractJson(response_text).ok
    /\ parsed' = ExtractJson(response_text).val
    /\ parse_pc' = "returned"
    /\ UNCHANGED <<response_text, lines, scan>>
    /\ UNCHANGED batchVars

\* json.loads raises what "except json.JSONDecodeError" does not catch: the
\* outer "except Exception" returns None
DecodeRaises ==
    /\ parse_pc = "try"
    /\ ExtractJson(response_text).raised
    /\ parsed' = PyNone
    /\ parse_pc' = "returned"
    /\ UNCHANGED <<response_text, lines, scan>>
    /\ UNCHANGED batchVars

\* json.JSONDecodeError: the fallback's set-up
DecodeFails ==
    /\ parse_pc = "try"
    /\ ~ExtractJson(response_text).ok
    /\ ~ExtractJson(response_text).raised
    /\ lines' = Split(response_text, "\n")
    /\ scan' = ScanInit
    /\ parse_pc' = "scan"
    /\ UNCHANGED <<response_text, parsed>>
    /\ UNCHANGED batchVars

\* one iteration of "for line in lines"
ScanStep ==
    /\ parse_pc = "scan"
    /\ lines # <<>>
    /\ scan' = ScanLine(scan, Head(lines))
    /\ lines' = Tail(lines)
    /\ UNCHANGED <<response_text, parse_pc, parsed>>
    /\ UNCHANGED batchVars

\* "Add the last Q&A"
AddLast ==
    /\ parse_pc = "scan"
    /\ lines = <<>>
    /\ scan' = [scan EXCEPT !.questions_answers = SaveOpen(scan)]
    /\ parse_pc' = "truncate"
    /\ UNCHANGED <<response_text, lines, parsed>>
    /\ UNCHANGED batchVars

\* return questions_answers[:num_questions]
ReturnFallback ==
    /\ parse_pc = "truncate"
    /\ parsed' = PyList(Truncate(scan.questions_answers, NumQuestions))
    /\ parse_pc' = "returned"
    /\ UNCHANGED <<response_text, lines, scan>>
    /\ UNCHANGED batchVars

ParserNext ==
    ReturnDecoded \/ DecodeRaises \/ DecodeFails \/ ScanStep \/ AddLast \/ ReturnFallback

ParserSpec == ParserInit /\ [][ParserNext]_vars

\* the run step by step returns what the operator computes
ParserStepsAgree ==
    parse_pc = "returned" => parsed = ParseResponse(response_text, NumQuestions)

\* ------------------------------------------------------------- properties

IsPost(e) == e.op = "post"
\* the generation calls issued so far, in order
Posts == SelectSeq(trace, IsPost)

\* the call failed: a transport error or a status other than 200
Failed(response) == response.raised \/ response.status_code # 200

\* write_results_to_excel has stopped after passing the precondition check
Stopped == pc \in {"done", "raised"}

\* the seed source is unreadable or lacks a required column
PreconditionFails ==
    \/ ~input_file.readable
    \/ "Category" \notin input_file.columns
    \/ "Topic" \notin input_file.columns

\* number of records a call returned
RecordCount(x) == IF x.t = "list" THEN Len(x.v) ELSE 0

\* a record's field as a row shows it
FieldOf(record, key) == IF key \in DOMAIN record.v THEN record.v[key] ELSE EmptyStr

\* a string that is not empty after trimming
NonEmpty(x) == x.t = "str" /\ Strip(x.v) # <<>>

AllEmpty == [k \in 1..WideSlots |-> EmptyStr]

\* C1: the batch never aborts on a single pair's outcome: whatever each
\* generation call met (a failure, or status 200 with any reply text), once
\* write_results_to_excel has stopped every seed pair was processed and the
\* output was written.
C1_BatchNeverAborts ==
    Stopped => /\ Len(Posts) = Len(df)
               /\ output_file.written

\* C2: a reply that is a well-formed JSON array encoding the records R, bare
\* or wrapped in commentary, makes generate_questions_and_answers return
\* exactly the first num_questions records of R in order, so never more than
\* num_questions records.
C2_StructuredRoundTrip ==
    \A i \in 1..Len(qa_returned) : \A R \in RecordSeqs :
        Posts[i].response \in {Http200(EncodeArray(R)), Http200(Wrapped(R))}
        => /\ qa_returned[i] = PyList(Slice(RecordValues(R), 0, NumQuestions))
           /\ RecordCount(qa_returned[i]) <= NumQuestions

\* C3: every record that reaches an output row has a question and an answer
\* that are non-empty after trimming: long rows, and the wide slots a
\* returned record was stored in.
C3_RecordsNonEmpty ==
    output_file.written =>
        /\ layout = "long" =>
            \A r \in 1..Len(output_file.rows) :
                /\ NonEmpty(output_file.rows[r].Question)
                /\ NonEmpty(output_file.rows[r].Answer)
        /\ layout = "wide" =>
            \A i \in 1..Len(output_file.rows) : \A k \in 1..WideSlots :
                k <= RecordCount(qa_returned[i])
                => /\ NonEmpty(output_file.rows[i].Question[k])
                   /\ NonEmpty(output_file.rows[i].Answer[k])

\* rows the long layout holds for the pairs other than i
RECURSIVE RecordsExcept(_, _)
RecordsExcept(n, i) ==
    IF n = 0 THEN 0
    ELSE RecordsExcept(n - 1, i) + (IF n = i THEN 0 ELSE RecordCount(qa_returned[n]))

\* C4: a seed pair whose generation call failed contributes zero rows in the
\* long layout and one row of empty question/answer cells in the wide
\* layout, and every seed pair after it is still processed: once the run
\* has stopped, all pairs were called.
C4_FailedPairIsSkipped ==
    \A i \in 1..Len(Posts) :
        Failed(Posts[i].response)
        => /\ layout = "wide" => /\ df_with_qa[i].Question = AllEmpty
                                 /\ df_with_qa[i].Answer = AllEmpty
           /\ layout = "long" /\ pc = "done"
                 => Len(output_file.rows) = RecordsExcept(Len(qa_returned), i)
           /\ Stopped => Len(Posts) = Len(df)

RECURSIVE TotalRecords(_)
TotalRecords(n) ==
    IF n = 0 THEN 0 ELSE TotalRecords(n - 1) + RecordCount(qa_returned[n])

\* C5: after a completed run the long output has as many rows as records
\* were returned over all pairs and total_qa_pairs equals that count; the
\* wide output has one row per seed pair whose slots 1..k hold the pair's
\* first k = min(5, records) records in order and whose other slots are
\* empty strings, records past the fifth being dropped.
C5_RowCounts ==
    pc = "done" =>
        /\ layout = "long" =>
            /\ Len(output_file.rows) = TotalRecords(Len(qa_returned))
            /\ total_qa_pairs = Len(output_file.rows)
        /\ layout = "wide" =>
            /\ Len(output_file.rows) = Len(input_file.rows)
            /\ \A i \in 1..Len(output_file.rows) :
                /\ DOMAIN output_file.rows[i].Question = 1..WideSlots
                /\ DOMAIN output_file.rows[i].Answer = 1..WideSlots
                /\ \A k \in 1..WideSlots :
                    IF k <= RecordCount(qa_returned[i])
                    THEN /\ output_file.rows[i].Question[k]
                              = FieldOf(qa_returned[i].v[k], KeyQuestion)
                         /\ output_file.rows[i].Answer[k]
                              = FieldOf(qa_returned[i].v[k], KeyAnswer)
                    ELSE /\ output_file.rows[i].Question[k] = EmptyStr
                         /\ output_file.rows[i].Answer[k] = EmptyStr

\* a completed run in which one pair returned more than five records and
\* another none
C5_Witness ==
    /\ pc = "done"
    /\ \E i, j \in 1..Len(qa_returned) :
        /\ RecordCount(qa_returned[i]) > WideSlots
        /\ RecordCount(qa_returned[j]) = 0

\* the long rows of the first n pairs: each pair's records in the order
\* returned, under the pair's category and topic, pair after pair
RECURSIVE RowsInSeedOrder(_)
RowsInSeedOrder(n) ==
    IF n = 0 THEN <<>>
    ELSE RowsInSeedOrder(n - 1)
         \o [k \in 1..RecordCount(qa_returned[n]) |->
                [Category |-> df[n].Category, Topic |-> df[n].Topic,
                 Question |-> FieldOf(qa_returned[n].v[k], KeyQuestion),
                 Answer |-> FieldOf(qa_returned[n].v[k], KeyAnswer)]]

\* C6: the accumulated results keep the seed order: the long rows are the
\* pairs' records pair after pair, each pair's in the order returned; wide
\* row i carries the category and topic of seed pair i and in its slots
\* records of pair i only.  (Stated while no exception has left the loop.)
C6_SeedOrderPreserved ==
    pc \notin {"raised", "idle"} =>
        /\ layout = "long" => result_data = RowsInSeedOrder(Len(qa_returned))
        /\ layout = "wide" =>
            \A i \in 1..Len(df_with_qa) :
                /\ df_with_qa[i].Category = df[i].Category
                /\ df_with_qa[i].Topic = df[i].Topic
                /\ \A k \in 1..WideSlots :
                    df_with_qa[i].Question[k] # EmptyStr
                    => /\ i <= Len(qa_returned)
                       /\ k <= RecordCount(qa_returned[i])
                       /\ df_with_qa[i].Question[k]
                            = FieldOf(qa_returned[i].v[k], KeyQuestion)
                       /\ df_with_qa[i].Answer[k]
                            = FieldOf(qa_returned[i].v[k], KeyAnswer)

\* rows of two different seed pairs, the first with two records, collected
C6_Witness ==
    /\ layout = "long"
    /\ Len(qa_returned) >= 2
    /\ RecordCount(qa_returned[1]) >= 2
    /\ RecordCount(qa_returned[2]) >= 1
    /\ df[1] # df[2]
    /\ pc = "sleep"

\* C8: when the seed source is unreadable or lacks the Category or Topic
\* column, no generation call is made, no pacing delay is performed and no
\* output is written.
C8_PreconditionFailureStopsRun ==
    PreconditionFails => /\ trace = <<>>
                         /\ qa_returned = <<>>
                         /\ ~output_file.written
                         /\ pc \in {"read", "returned"}

\* the run returned on a readable file that lacks a required column
C8_Witness ==
    /\ pc = "returned"
    /\ input_file.readable
    /\ "Category" \notin input_file.columns

\* C10: a run over n seed pairs that passes the precondition check issues
\* exactly n generation calls, one per pair in source order and none twice,
\* each followed by exactly one pacing delay before the next call, whatever
\* the call met.
C10_OneCallAndDelayPerPair ==
    /\ \A n \in 1..Len(trace) :
        /\ trace[n].op = (IF n % 2 = 1 THEN "post" ELSE "sleep")
        /\ trace[n].row = (n + 1) \div 2
    /\ Stopped => Len(Posts) = Len(df)

\* ------------------------------------- properties of the fallback scanner

\* the text after the first colon, trimmed
AfterColon(line) == Strip(Split1(line, ":")[2])

\* "Q: ..." / "Question: ..." with a question text
IsQuestionLine(line) ==
    /\ \/ StartsWith(Strip(line), <<"Q", ":">>)
       \/ StartsWith(Strip(line), MarkQuestion \o <<":">>)
    /\ AfterColon(line) # <<>>
\* "A: ..." / "Answer: ..." with an answer text
IsAnswerLine(line) ==
    /\ \/ StartsWith(Strip(line), <<"A", ":">>)
       \/ StartsWith(Strip(line), MarkAnswer \o <<":">>)
    /\ AfterColon(line) # <<>>
\* a line that carries no marker: blank, or text not starting with Q or A
IsContinuation(line) == Strip(line) = <<>> \/ Head(Strip(line)) \notin {"Q", "A"}

\* question lines each followed by an answer line and then continuation
\* lines; prev is the kind of the line before
RECURSIVE QABlocks(_, _)
QABlocks(ls, prev) ==
    IF ls = <<>> THEN prev = "answer"
    ELSE \/ IsQuestionLine(Head(ls)) /\ prev \in {"start", "answer"}
            /\ QABlocks(Tail(ls), "question")
         \/ IsAnswerLine(Head(ls)) /\ prev = "question" /\ QABlocks(Tail(ls), "answer")
         \/ IsContinuation(Head(ls)) /\ prev = "answer" /\ QABlocks(Tail(ls), "answer")

\* the records such text stands for: per question line its text, and the
\* answer-line text followed by the non-empty continuation lines, joined by
\* one space each
RECURSIVE RecordsOfBlocks(_, _)
RecordsOfBlocks(ls, acc) ==
    IF ls = <<>> THEN acc
    ELSE IF IsQuestionLine(Head(ls))
    THEN RecordsOfBlocks(Tail(ls),
                         Append(acc, [question |-> AfterColon(Head(ls)), answer |-> <<>>]))
    ELSE IF IsAnswerLine(Head(ls))
    THEN RecordsOfBlocks(Tail(ls),
                         [acc EXCEPT ![Len(acc)].answer = AfterColon(Head(ls))])
    ELSE IF Strip(Head(ls)) = <<>> THEN RecordsOfBlocks(Tail(ls), acc)
    ELSE RecordsOfBlocks(Tail(ls),
                         [acc EXCEPT ![Len(acc)].answer = @ \o <<" ">> \o Strip(Head(ls))])

\* C7: on text the structured decode rejects and whose lines are question
\* lines each followed by an answer line and continuation lines, the
\* fallback returns one record per question line (up to num_questions), the
\* answer being the answer-line text and the non-empty continuation lines
\* joined by exactly one space; blank lines add nothing.
C7_FallbackRecovery ==
    /\ parse_pc = "returned"
    /\ ~ExtractJson(response_text).ok
    /\ QABlocks(Split(response_text, "\n"), "start")
    => parsed = PyList(Slice(RecordValues(RecordsOfBlocks(Split(response_text, "\n"), <<>>)),
                             0, NumQuestions))

\* question-marker lines that captured a question text: those with a colon
CapturingLines(ls) ==
    {n \in 1..Len(ls) :
        /\ StartsWith(Strip(ls[n]), MarkQ)
        /\ Len(Split1(ls[n], ":")) > 1}

\* C9: every captured question is emitted in exactly one record: before
\* truncation the scanner holds as many records as there are question-marker
\* lines that captured a question text, also when a question-marker line has
\* no colon.
C9_EachQuestionEmittedOnce ==
    parse_pc = "truncate"
    => Len(scan.questions_answers)
         = Cardinality(CapturingLines(Split(response_text, "\n")))

====
